---- MODULE Spec2Model ----
(***************************************************************************)
(* Model of src/first/email_check.py: the sliding-window RateLimiter, the  *)
(* syntax checks and the DNS classification of EmailValidator.check_email, *)
(* and the sequential batch driver process_emails.                         *)
(*                                                                         *)
(* Strings are sequences of one-character strings.  The clock time.time()  *)
(* is an integer number of ticks, Second ticks to the second; it never     *)
(* decreases.  time.sleep(d) returns after at least d.                     *)
(***************************************************************************)
EXTENDS Integers, Sequences, FiniteSets, TLC

VARIABLES
    cli,             \* main(): args.rate_limit and the file that args.file names
    emails,          \* process_emails: the input list
    max_per_second,  \* RateLimiter.max_per_second (= EmailValidator.rate_limit)
    requests,        \* RateLimiter.requests
    now,             \* the value time.time() returns
    pc,              \* position of the running program
    idx,             \* process_emails: the loop index i (1-based)
    results,         \* process_emails: the list results
    exitStatus,      \* status passed to sys.exit, -1 while the process runs
    log,             \* history: one record per address that was processed
    admitted,        \* history: every timestamp wait() appended, in order
    slept,           \* history: [asked, woke] of the last wait() that returned
    waitCount,       \* history: number of wait() calls made on the limiter
    lastRate,        \* history: last value get_current_rate() returned, -1 if none
    interrupted,     \* history: a KeyboardInterrupt was raised inside the try block
    rateCalls        \* history: the get_current_rate() calls made since the last
                     \* wait() or tick of the clock: [rate, window] of each

vars == <<cli, emails, max_per_second, requests, now, pc, idx, results, exitStatus,
          log, admitted, slept, waitCount, lastRate, interrupted, rateCalls>>

limiterVars == <<requests, now, admitted, slept, waitCount, rateCalls>>
driverVars == <<pc, idx, results, exitStatus, log, interrupted>>

-----------------------------------------------------------------------------
(* Bounds of the model *)

Second == 2
MaxTime == 5
MaxCeiling == 2
MaxWaits == 4
MaxBatch == 2
MaxAddrLen == 5
MaxRateCalls == 3
MaxLines == 1

(* Program constants *)

MaxDomainLen == 253
MaxLabelLen == 63

-----------------------------------------------------------------------------
(* Strings *)

Alphabet == {"a", "-", ".", "@", " "}

IsSpace(c) == c = " "
IsAlnum(c) == c = "a"
IsLocalChar(c) == c \in {"a", "-", "."}
IsDomainChar(c) == c \in {"a", "-"}

RECURSIVE LStrip(_)
LStrip(s) == IF s # <<>> /\ IsSpace(Head(s)) THEN LStrip(Tail(s)) ELSE s

RECURSIVE RStripSpace(_)
RStripSpace(s) ==
    IF s # <<>> /\ IsSpace(s[Len(s)]) THEN RStripSpace(SubSeq(s, 1, Len(s) - 1)) ELSE s

Strip(s) == RStripSpace(LStrip(s))

RECURSIVE RStripDot(_)
RStripDot(s) ==
    IF s # <<>> /\ s[Len(s)] = "." THEN RStripDot(SubSeq(s, 1, Len(s) - 1)) ELSE s

\* str.split(sep): the pieces between the occurrences of sep, at least one piece
RECURSIVE SplitFrom(_, _, _)
SplitFrom(s, sep, piece) ==
    IF s = <<>> THEN <<piece>>
    ELSE IF Head(s) = sep THEN <<piece>> \o SplitFrom(Tail(s), sep, <<>>)
    ELSE SplitFrom(Tail(s), sep, Append(piece, Head(s)))

Split(s, sep) == SplitFrom(s, sep, <<>>)

\* '--' in part
HasDoubleHyphen(part) ==
    \E i \in 1..(Len(part) - 1) : part[i] = "-" /\ part[i + 1] = "-"

-----------------------------------------------------------------------------
(* EmailValidator: syntax checks *)

\* D+(\.D+)* : the pieces between the dots are non-empty runs of [a-zA-Z0-9-]
MatchesDomainPart(d) ==
    LET parts == Split(d, ".")
    IN \A i \in 1..Len(parts) :
          /\ parts[i] # <<>>
          /\ \A j \in 1..Len(parts[i]) : IsDomainChar(parts[i][j])

MatchesEmailRegex_OptionalDomain(email) ==
    \/ Len(email) >= 1 /\ \A i \in 1..Len(email) : IsLocalChar(email[i])
    \/ \E k \in 1..Len(email) :
          /\ email[k] = "@"
          /\ k > 1
          /\ \A i \in 1..(k - 1) : IsLocalChar(email[i])
          /\ MatchesDomainPart(SubSeq(email, k + 1, Len(email)))

\* EMAIL_REGEX.match(email): the whole string is local-part @ domain-part
MatchesEmailRegex(email) ==
    \E k \in 1..Len(email) :
        /\ email[k] = "@"
        /\ k > 1
        /\ \A i \in 1..(k - 1) : IsLocalChar(email[i])
        /\ MatchesDomainPart(SubSeq(email, k + 1, Len(email)))

_is_valid_syntax(email) == MatchesEmailRegex(email)

\* ^[a-zA-Z0-9]([a-zA-Z0-9-]*[a-zA-Z0-9])?$
MatchesLabelRegex(part) ==
    /\ Len(part) >= 1
    /\ IsAlnum(part[1])
    /\ IsAlnum(part[Len(part)])
    /\ \A j \in 1..Len(part) : IsAlnum(part[j]) \/ part[j] = "-"

LabelOk(part) ==
    /\ ~(Len(part) = 0 \/ Len(part) > MaxLabelLen)
    /\ MatchesLabelRegex(part)
    /\ ~HasDoubleHyphen(part)

_is_valid_domain_syntax(domain) ==
    LET parts == Split(domain, ".")
    IN IF Len(domain) > MaxDomainLen THEN FALSE
       ELSE IF Len(parts) < 2 THEN FALSE
       ELSE \A i \in 1..Len(parts) : LabelOk(parts[i])

-----------------------------------------------------------------------------
(* EmailResult and the outcomes check_email builds.  error is <<>> for None,  *)
(* otherwise <<message>> or <<message, text of the exception>>.              *)

EmailResult_Stamped(email, status, mx_records, error) ==
    [email |-> email, status |-> status, mx_records |-> mx_records,
     error |-> <<error, now>>]

\* the dataclass of lines 34-44
EmailResult(email, status, mx_records, error) ==
    [email |-> email, status |-> status, mx_records |-> mx_records, error |-> error]

Statuses == {"VALID_DOMAIN", "NO_DOMAIN", "NO_MX", "DNS_ERROR", "UNKNOWN"}

\* how a part of check_email ends: it returns a result, goes on to the next
\* step ("continue", "fallback"), or lets an exception propagate ("raise")
Step(kind, email, domain, text) ==
    [kind |-> kind, result |-> EmailResult(email, "NONE", <<>>, <<>>),
     domain |-> domain, text |-> text]
Returned(result) == [kind |-> "return", result |-> result, domain |-> <<>>, text |-> ""]
Continue(email, domain) == Step("continue", email, domain, "")
Propagate(email, text) == Step("raise", email, <<>>, text)

\* check_email, steps 1 to 4: the checks made before any DNS query
PreDnsCheck(raw) ==
    LET email == Strip(raw)
        parts == Split(email, "@")
    IN IF email = <<>>
       THEN Returned(EmailResult(email, "NO_DOMAIN", <<>>, <<"empty string">>))
       ELSE IF ~_is_valid_syntax(email)
       THEN Returned(EmailResult(email, "NO_DOMAIN", <<>>, <<"invalid email syntax">>))
       ELSE IF Len(parts) < 2
       THEN Returned(EmailResult(email, "NO_DOMAIN", <<>>, <<"missing @ or domain">>))
       ELSE IF ~_is_valid_domain_syntax(parts[2])
       THEN Returned(EmailResult(email, "NO_DOMAIN", <<>>, <<"invalid domain syntax">>))
       ELSE Continue(email, parts[2])

-----------------------------------------------------------------------------
(* The resolver: what self.resolver.resolve(domain, rtype) can do.  kind is   *)
(* "records" (an answer, hosts = str(rdata.exchange) of each record) or the   *)
(* exception raised; "Other" is any other Exception, text its str().          *)

HostLists ==
    {<<<<"m", ".">>>>, <<<<"n", ".">>, <<"m", ".">>>>, <<<<".">>>>}

Response(kind, hosts, text) == [kind |-> kind, hosts |-> hosts, text |-> text]

NoResponse == Response("none", <<>>, "")

Failures ==
    {Response("NoAnswer", <<>>, "no answer"), Response("NXDOMAIN", <<>>, "nxdomain"),
     Response("NoNameservers", <<>>, "servfail"), Response("Timeout", <<>>, "timeout"),
     Response("Other", <<>>, "boom")}

MxResponses == {Response("records", h, "") : h \in HostLists} \cup Failures

AResponses == {Response("records", <<>>, "")} \cup Failures

\* what a call returns to its caller: a value, or an exception
Value(val) == [kind |-> "return", val |-> val, exc |-> "", text |-> ""]
Raise(exc, text) == [kind |-> "raise", val |-> <<>>, exc |-> exc, text |-> text]

StripHosts(hosts) == [i \in 1..Len(hosts) |-> RStripDot(hosts[i])]

\* _check_mx_records(domain), given what the MX query does
_check_mx_records(resp) ==
    IF resp.kind = "records" THEN Value(StripHosts(resp.hosts))
    ELSE IF resp.kind = "NoAnswer" THEN Value(<<>>)
    ELSE Raise(resp.kind, resp.text)

\* self.resolver.resolve(domain, 'A'), given what the A query does
ResolveA(resp) ==
    IF resp.kind = "records" THEN Value(<<>>) ELSE Raise(resp.kind, resp.text)

MxHandlers_NoNameserversUncaught(email, r) ==
    IF r.kind = "return"
    THEN IF r.val # <<>>
         THEN Returned(EmailResult(email, "VALID_DOMAIN", r.val, <<>>))
         ELSE Returned(EmailResult(email, "NO_MX", <<>>, <<"MX records not found">>))
    ELSE IF r.exc = "NXDOMAIN"
    THEN Returned(EmailResult(email, "NO_DOMAIN", <<>>, <<"domain does not exist (NXDOMAIN)">>))
    ELSE IF r.exc = "Timeout"
    THEN Returned(EmailResult(email, "DNS_ERROR", <<>>, <<"DNS query timeout">>))
    ELSE IF r.exc = "NoAnswer"
    THEN Step("fallback", email, <<>>, "")
    ELSE Returned(EmailResult(email, "UNKNOWN", <<>>, <<"unknown error", r.text>>))

MxHandlers_NoCatchAll(email, r) ==
    IF r.kind = "return"
    THEN IF r.val # <<>>
         THEN Returned(EmailResult(email, "VALID_DOMAIN", r.val, <<>>))
         ELSE Returned(EmailResult(email, "NO_MX", <<>>, <<"MX records not found">>))
    ELSE IF r.exc = "NXDOMAIN"
    THEN Returned(EmailResult(email, "NO_DOMAIN", <<>>, <<"domain does not exist (NXDOMAIN)">>))
    ELSE IF r.exc = "NoNameservers"
    THEN Returned(EmailResult(email, "DNS_ERROR", <<>>, <<"no DNS servers available">>))
    ELSE IF r.exc = "Timeout"
    THEN Returned(EmailResult(email, "DNS_ERROR", <<>>, <<"DNS query timeout">>))
    ELSE IF r.exc = "NoAnswer"
    THEN Step("fallback", email, <<>>, "")
    ELSE Propagate(email, r.text)

MxHandlers_ValidWhenEmpty(email, r) ==
    IF r.kind = "return"
    THEN Returned(EmailResult(email, "VALID_DOMAIN", r.val, <<>>))
    ELSE IF r.exc = "NXDOMAIN"
    THEN Returned(EmailResult(email, "NO_DOMAIN", <<>>, <<"domain does not exist (NXDOMAIN)">>))
    ELSE IF r.exc = "NoNameservers"
    THEN Returned(EmailResult(email, "DNS_ERROR", <<>>, <<"no DNS servers available">>))
    ELSE IF r.exc = "Timeout"
    THEN Returned(EmailResult(email, "DNS_ERROR", <<>>, <<"DNS query timeout">>))
    ELSE IF r.exc = "NoAnswer"
    THEN Step("fallback", email, <<>>, "")
    ELSE Returned(EmailResult(email, "UNKNOWN", <<>>, <<"unknown error", r.text>>))

MxHandlers_TimeoutFallsBack(email, r) ==
    IF r.kind = "return"
    THEN IF r.val # <<>>
         THEN Returned(EmailResult(email, "VALID_DOMAIN", r.val, <<>>))
         ELSE Returned(EmailResult(email, "NO_MX", <<>>, <<"MX records not found">>))
    ELSE IF r.exc = "NXDOMAIN"
    THEN Returned(EmailResult(email, "NO_DOMAIN", <<>>, <<"domain does not exist (NXDOMAIN)">>))
    ELSE IF r.exc = "NoNameservers"
    THEN Returned(EmailResult(email, "DNS_ERROR", <<>>, <<"no DNS servers available">>))
    ELSE IF r.exc = "Timeout" \/ r.exc = "NoAnswer"
    THEN Step("fallback", email, <<>>, "")
    ELSE Returned(EmailResult(email, "UNKNOWN", <<>>, <<"unknown error", r.text>>))

\* check_email, the handlers of the MX attempt (lines 142-173) applied to what
\* _check_mx_records did; "fallback" enters the NoAnswer handler's A lookup
MxHandlers(email, r) ==
    IF r.kind = "return"
    THEN IF r.val # <<>>
         THEN Returned(EmailResult(email, "VALID_DOMAIN", r.val, <<>>))
         ELSE Returned(EmailResult(email, "NO_MX", <<>>, <<"MX records not found">>))
    ELSE IF r.exc = "NXDOMAIN"
    THEN Returned(EmailResult(email, "NO_DOMAIN", <<>>, <<"domain does not exist (NXDOMAIN)">>))
    ELSE IF r.exc = "NoNameservers"
    THEN Returned(EmailResult(email, "DNS_ERROR", <<>>, <<"no DNS servers available">>))
    ELSE IF r.exc = "Timeout"
    THEN Returned(EmailResult(email, "DNS_ERROR", <<>>, <<"DNS query timeout">>))
    ELSE IF r.exc = "NoAnswer"
    THEN Step("fallback", email, <<>>, "")
    ELSE Returned(EmailResult(email, "UNKNOWN", <<>>, <<"unknown error", r.text>>))

\* check_email, the handlers of the A lookup (lines 158-170)
AHandlers(email, r) ==
    IF r.kind = "return"
    THEN Returned(EmailResult(email, "NO_MX", <<>>, <<"A record present, no MX records">>))
    ELSE IF r.exc = "NXDOMAIN"
    THEN Returned(EmailResult(email, "NO_DOMAIN", <<>>, <<"domain does not exist">>))
    ELSE Returned(EmailResult(email, "UNKNOWN", <<>>, <<"error checking A record", r.text>>))

\* process_emails, the handler of lines 326-332
ProcessingError(email, text) ==
    EmailResult(email, "UNKNOWN", <<>>, <<"processing error", text>>)

-----------------------------------------------------------------------------
(* RateLimiter *)

Prune_Nothing(reqs, t) == reqs

\* [t for t in self.requests if current_time - t < 1.0]
Prune(reqs, t) == SelectSeq(reqs, LAMBDA x : t - x < Second)

LimitReached_OffByOne(reqs, c) == Len(reqs) > c

\* len(self.requests) >= self.max_per_second
LimitReached(reqs, c) == Len(reqs) >= c

SleepTime_Short(reqs, t) == Second - 1 - (t - reqs[1])

SleepTime_FromNewest(reqs, t) == Second - (t - reqs[Len(reqs)])

\* 1.0 - (current_time - self.requests[0])
SleepTime(reqs, t) == Second - (t - reqs[1])

NoSleep == [at |-> 0, asked |-> 0, woke |-> 0]

WaitResult(reqs, t, sleep, appended) ==
    [requests |-> reqs, now |-> t, slept |-> sleep, appended |-> appended]

\* wait(): every state it can return in, called with window reqs at time t.
\* time.sleep(d) wakes at any time from t + d on.
UnlimitedWait_Records(reqs, t) == {WaitResult(Append(reqs, t), t, NoSleep, TRUE)}

\* max_per_second <= 0: return at once
UnlimitedWait(reqs, t) == {WaitResult(reqs, t, NoSleep, FALSE)}

\* max_per_second > 0: prune, sleep if the limit is reached, append
LimitedWait(c, reqs, t) ==
    LET pruned == Prune(reqs, t)
    IN IF LimitReached(pruned, c) /\ SleepTime(pruned, t) > 0
       THEN {WaitResult(Append(Prune(pruned, w), w), w,
                        [at |-> t, asked |-> SleepTime(pruned, t), woke |-> w], TRUE) :
               w \in (t + SleepTime(pruned, t))..MaxTime}
       ELSE {WaitResult(Append(pruned, t), t, [NoSleep EXCEPT !.at = t, !.woke = t], TRUE)}

WaitOutcomes(c, reqs, t) ==
    IF c <= 0 THEN UnlimitedWait(reqs, t) ELSE LimitedWait(c, reqs, t)

\* the limiter's variables after a wait() that returned in state o
Waited(o) ==
    /\ requests' = o.requests
    /\ now' = o.now
    /\ slept' = o.slept
    /\ admitted' = IF o.appended THEN Append(admitted, o.now) ELSE admitted
    /\ waitCount' = waitCount + 1
    /\ rateCalls' = <<>>

GetRate_Clears ==
    /\ lastRate' = Len(Prune(requests, now))
    /\ requests' = <<>>
    /\ rateCalls' = Append(rateCalls, [rate |-> lastRate', window |-> requests'])

GetRate_CountsBeforePruning ==
    /\ requests' = Prune(requests, now)
    /\ lastRate' = Len(requests)
    /\ rateCalls' = Append(rateCalls, [rate |-> lastRate', window |-> requests'])

\* get_current_rate()
GetRate ==
    /\ requests' = Prune(requests, now)
    /\ lastRate' = Len(requests')
    /\ rateCalls' = Append(rateCalls, [rate |-> lastRate', window |-> requests'])

-----------------------------------------------------------------------------
(* Inputs *)

Addresses ==
    {<<" ", "a", "@", "a", ".", "a">>,
     <<"a", "@", "a", "-", "-", "a", ".", "a">>}

Batches == UNION {[1..n -> Addresses] : n \in 0..MaxBatch}

AllStrings == UNION {[1..n -> Alphabet] : n \in 0..MaxAddrLen}

Ceilings == (-1)..MaxCeiling

\* the lines of an input file, without their line ends
FileLines == Addresses \cup {<<>>, <<" ">>}

Files ==
    {[status |-> "missing", lines |-> <<>>], [status |-> "unreadable", lines |-> <<>>]}
    \cup {[status |-> "ok", lines |-> l] :
             l \in UNION {[1..n -> FileLines] : n \in 0..MaxLines}}

CommandLines == [rate_limit : Ceilings, file : Files]

\* process_emails or a RateLimiter used without main()
NoCli == [rate_limit |-> 0, file |-> [status |-> "ok", lines |-> <<>>]]

NoLog ==
    [email |-> <<>>, called |-> FALSE, waits |-> 0, queries |-> <<>>,
     mx |-> NoResponse, a |-> NoResponse, before |-> <<>>, after |-> <<>>,
     escaped |-> FALSE]

-----------------------------------------------------------------------------
(* process_emails *)

Running == pc \in {"progress", "check", "resolve"}

Appended_Dedup(res, result) ==
    IF \E i \in 1..Len(res) : res[i] = result THEN res ELSE Append(res, result)

\* results.append(...)
Appended(res, result) == Append(res, result)

\* the end of one turn of the for loop: the next address, or return results
NextAddress(result) ==
    /\ results' = Appended(results, result)
    /\ idx' = idx + 1
    /\ pc' = IF idx + 1 <= Len(emails) THEN "progress" ELSE "returned"

\* lines 310-317: the progress line, with get_current_rate()
Progress ==
    /\ pc = "progress"
    /\ GetRate
    /\ pc' = "check"
    /\ UNCHANGED <<cli, emails, max_per_second, now, idx, results, exitStatus, log,
                   admitted, slept, waitCount, interrupted>>

ProgressFails_Propagates ==
    /\ pc = "progress"
    /\ GetRate
    /\ pc' = "raised"
    /\ log' = Append(log, [NoLog EXCEPT !.email = emails[idx],
                                        !.before = requests', !.after = requests'])
    /\ UNCHANGED <<cli, emails, max_per_second, now, idx, results, exitStatus, admitted,
                   slept, waitCount, interrupted>>

\* lines 310-317 raise an Exception (print fails) after get_current_rate();
\* lines 326-332 record it
ProgressFails ==
    /\ pc = "progress"
    /\ GetRate
    /\ NextAddress(ProcessingError(emails[idx], "io"))
    /\ log' = Append(log, [NoLog EXCEPT !.email = emails[idx],
                                        !.before = requests', !.after = requests'])
    /\ UNCHANGED <<cli, emails, max_per_second, now, exitStatus, admitted, slept, waitCount,
                   interrupted>>

CheckEmailReject_WaitsFirst ==
    /\ pc = "check"
    /\ PreDnsCheck(emails[idx]).kind = "return"
    /\ NextAddress(PreDnsCheck(emails[idx]).result)
    /\ \E o \in WaitOutcomes(max_per_second, requests, now) :
          /\ Waited(o)
          /\ log' = Append(log, [NoLog EXCEPT !.email = emails[idx], !.called = TRUE,
                                              !.waits = 1, !.before = requests,
                                              !.after = o.requests])
    /\ UNCHANGED <<cli, emails, max_per_second, exitStatus, lastRate, interrupted>>

\* line 320, check_email returns from one of its steps 1 to 4
CheckEmailReject ==
    /\ pc = "check"
    /\ PreDnsCheck(emails[idx]).kind = "return"
    /\ NextAddress(PreDnsCheck(emails[idx]).result)
    /\ log' = Append(log, [NoLog EXCEPT !.email = emails[idx], !.called = TRUE,
                                        !.before = requests, !.after = requests])
    /\ UNCHANGED <<cli, emails, max_per_second, exitStatus, lastRate, interrupted>>
    /\ UNCHANGED limiterVars

\* line 320, check_email passes steps 1 to 4 and calls wait() (line 140)
CheckEmailWait ==
    /\ pc = "check"
    /\ PreDnsCheck(emails[idx]).kind = "continue"
    /\ \E o \in WaitOutcomes(max_per_second, requests, now) :
          /\ Waited(o)
          /\ log' = Append(log, [NoLog EXCEPT !.email = emails[idx], !.called = TRUE,
                                              !.waits = 1, !.before = requests,
                                              !.after = o.requests])
    /\ pc' = "resolve"
    /\ UNCHANGED <<cli, emails, max_per_second, idx, results, exitStatus, lastRate,
                   interrupted>>

\* lines 141-173 and 321: the MX query, the handlers, and results.append; an
\* exception check_email lets through is recorded by lines 326-332
CheckEmailResolve ==
    /\ pc = "resolve"
    /\ \E mx \in MxResponses :
          LET email == PreDnsCheck(emails[idx]).result.email
              h == MxHandlers(email, _check_mx_records(mx))
              entry == [log[idx] EXCEPT !.queries = <<"MX">>, !.mx = mx]
          IN IF h.kind = "fallback"
             THEN \E o \in WaitOutcomes(max_per_second, requests, now), a \in AResponses :
                     /\ Waited(o)
                     /\ NextAddress(AHandlers(email, ResolveA(a)).result)
                     /\ log' = [log EXCEPT ![idx] =
                                   [entry EXCEPT !.queries = <<"MX", "A">>, !.a = a,
                                                 !.waits = 2, !.after = o.requests]]
             ELSE /\ NextAddress(IF h.kind = "return" THEN h.result
                                 ELSE ProcessingError(emails[idx], h.text))
                  /\ log' = [log EXCEPT ![idx] =
                                [entry EXCEPT !.escaped = (h.kind = "raise")]]
                  /\ UNCHANGED limiterVars
    /\ UNCHANGED <<cli, emails, max_per_second, exitStatus, lastRate, interrupted>>

Interrupt_Recorded ==
    /\ Running
    /\ interrupted' = TRUE
    /\ NextAddress(ProcessingError(emails[idx], "interrupt"))
    /\ log' = IF Len(log) < idx THEN Append(log, [NoLog EXCEPT !.email = emails[idx]])
              ELSE log
    /\ UNCHANGED <<cli, emails, max_per_second, exitStatus, lastRate>>
    /\ UNCHANGED limiterVars

\* lines 323-325: KeyboardInterrupt inside the try block
Interrupt ==
    /\ Running
    /\ interrupted' = TRUE
    /\ pc' = "exit"
    /\ exitStatus' = 1
    /\ UNCHANGED <<cli, emails, max_per_second, idx, results, log, lastRate>>
    /\ UNCHANGED limiterVars

\* time passes: while a DNS query is in flight, or between two calls of the
\* limiter (the statements between them take no tick of the clock)
Tick ==
    /\ pc \in {"resolve", "limiter"}
    /\ now < MaxTime
    /\ now' = now + 1
    /\ rateCalls' = <<>>
    /\ UNCHANGED <<cli, emails, max_per_second, requests, admitted, slept, waitCount, lastRate>>
    /\ UNCHANGED driverVars

Fresh ==
    /\ requests = <<>>
    /\ now = 0
    /\ idx = 1
    /\ results = <<>>
    /\ exitStatus = -1
    /\ log = <<>>
    /\ admitted = <<>>
    /\ slept = NoSleep
    /\ waitCount = 0
    /\ lastRate = -1
    /\ interrupted = FALSE
    /\ rateCalls = <<>>

Init ==
    /\ cli = NoCli
    /\ emails \in Batches
    /\ max_per_second \in Ceilings
    /\ pc = IF emails = <<>> THEN "returned" ELSE "progress"
    /\ Fresh

Next ==
    \/ Progress
    \/ ProgressFails
    \/ CheckEmailReject
    \/ CheckEmailWait
    \/ CheckEmailResolve
    \/ Interrupt
    \/ Tick

Spec == Init /\ [][Next]_vars

-----------------------------------------------------------------------------
(* check_email called once, on any string, on a new validator *)

InitClassify ==
    /\ cli = NoCli
    /\ emails \in {<<s>> : s \in AllStrings \cup Addresses}
    /\ max_per_second \in Ceilings
    /\ pc = "check"
    /\ Fresh

NextClassify == CheckEmailReject \/ CheckEmailWait \/ CheckEmailResolve

SpecClassify == InitClassify /\ [][NextClassify]_vars

-----------------------------------------------------------------------------
(* The limiter alone: wait() and get_current_rate() called in any order *)

Wait ==
    /\ pc = "limiter"
    /\ waitCount < MaxWaits
    /\ \E o \in WaitOutcomes(max_per_second, requests, now) : Waited(o)
    /\ UNCHANGED <<cli, emails, max_per_second, lastRate>>
    /\ UNCHANGED driverVars

GetCurrentRate ==
    /\ pc = "limiter"
    /\ Len(rateCalls) < MaxRateCalls
    /\ GetRate
    /\ UNCHANGED <<cli, emails, max_per_second, now, admitted, slept, waitCount>>
    /\ UNCHANGED driverVars

-----------------------------------------------------------------------------
(* main: the command line, the input file, then process_emails *)

\* line 408: the stripped lines of the file that are not empty
ReadEmails(lines) ==
    SelectSeq([i \in 1..Len(lines) |-> Strip(lines[i])], LAMBDA l : l # <<>>)

Exits(status) ==
    /\ pc' = "exit"
    /\ exitStatus' = status
    /\ UNCHANGED <<emails, max_per_second>>

Main_AcceptsNegativeRate ==
    /\ pc = "main"
    /\ IF cli.file.status # "ok" THEN Exits(1)
       ELSE IF ReadEmails(cli.file.lines) = <<>> THEN Exits(0)
       ELSE /\ emails' = ReadEmails(cli.file.lines)
            /\ max_per_second' = cli.rate_limit
            /\ pc' = "progress"
            /\ UNCHANGED exitStatus
    /\ UNCHANGED <<cli, idx, results, log, lastRate, interrupted>>
    /\ UNCHANGED limiterVars

\* lines 398-433: the checks of main() up to its call of process_emails
Main ==
    /\ pc = "main"
    /\ IF cli.rate_limit < 0 THEN Exits(1)
       ELSE IF cli.file.status # "ok" THEN Exits(1)
       ELSE IF ReadEmails(cli.file.lines) = <<>> THEN Exits(0)
       ELSE /\ emails' = ReadEmails(cli.file.lines)
            /\ max_per_second' = cli.rate_limit
            /\ pc' = "progress"
            /\ UNCHANGED exitStatus
    /\ UNCHANGED <<cli, idx, results, log, lastRate, interrupted>>
    /\ UNCHANGED limiterVars

\* no validator exists before line 427: emails and max_per_second are set by Main
InitMain ==
    /\ cli \in CommandLines
    /\ emails = <<>>
    /\ max_per_second = 0
    /\ pc = "main"
    /\ Fresh

NextMain ==
    \/ Main
    \/ Progress
    \/ ProgressFails
    \/ CheckEmailReject
    \/ CheckEmailWait
    \/ CheckEmailResolve
    \/ Interrupt
    \/ Tick

SpecMain == InitMain /\ [][NextMain]_vars

-----------------------------------------------------------------------------
(* check_email called twice on one address, the second time by the same
   validator or by a new one *)

TwoRunAddresses == Addresses \cup {<<>>, <<"a">>, <<"a", "@", "a">>}

\* EmailValidator(rate_limit), lines 91-102, with the RateLimiter of lines 50-52
NewValidator ==
    /\ pc = "progress"
    /\ max_per_second' \in Ceilings
    /\ requests' = <<>>
    /\ admitted' = <<>>
    /\ slept' = NoSleep
    /\ rateCalls' = <<>>
    /\ lastRate' = -1
    /\ pc' = "check"
    /\ UNCHANGED <<cli, emails, now, waitCount, idx, results, exitStatus, log,
                   interrupted>>

InitTwoRuns ==
    /\ cli = NoCli
    /\ emails \in {<<s, s>> : s \in TwoRunAddresses}
    /\ max_per_second \in Ceilings
    /\ pc = "check"
    /\ Fresh

NextTwoRuns ==
    \/ CheckEmailReject
    \/ CheckEmailWait
    \/ CheckEmailResolve
    \/ Tick
    \/ Progress
    \/ NewValidator

SpecTwoRuns == InitTwoRuns /\ [][NextTwoRuns]_vars

-----------------------------------------------------------------------------

InitLimiter ==
    /\ cli = NoCli
    /\ emails = <<>>
    /\ max_per_second \in Ceilings
    /\ pc = "limiter"
    /\ Fresh

NextLimiter == Wait \/ GetCurrentRate \/ Tick

SpecLimiter == InitLimiter /\ [][NextLimiter]_vars

-----------------------------------------------------------------------------
(* Properties of the RateLimiter *)

\* the timestamps wait() admitted that lie in the trailing second of time t
InWindow(t) == {i \in 1..Len(admitted) : t - admitted[i] < Second}

\* C1: with a ceiling c > 0, at any time from the return of a wait() on, at
\* most c of the admitted timestamps (the one just admitted included) lie in
\* the trailing second
C1_WindowBound ==
    max_per_second > 0 => Cardinality(InWindow(now)) <= max_per_second

\* a wait() found the window full, slept and admitted its call: the window is
\* full again
C1_Witness ==
    /\ max_per_second > 0
    /\ slept.asked > 0
    /\ now = slept.woke
    /\ Len(admitted) > max_per_second
    /\ Cardinality(InWindow(now)) = max_per_second

\* C5: with a ceiling of 0 or less, wait() never sleeps and never records a
\* timestamp, the window stays empty and get_current_rate() returns 0
C5_UnlimitedNeverTracks ==
    max_per_second <= 0 =>
        /\ requests = <<>>
        /\ admitted = <<>>
        /\ slept = NoSleep
        /\ lastRate \in {-1, 0}

\* several wait() calls at the same instant, then get_current_rate()
C5_Witness ==
    /\ max_per_second <= 0
    /\ waitCount >= 3
    /\ now = 0
    /\ lastRate = 0

-----------------------------------------------------------------------------
(* Properties of check_email *)

\* the addresses whose classification is finished
Classified == {i \in 1..Len(results) : log[i].called}

\* the addresses for which the MX query was made and answered with kind k
MxAnswered(k) == {i \in Classified : log[i].queries # <<>> /\ log[i].mx.kind = k}

\* stripped is host without its trailing dots
IsRStripped(host, stripped) ==
    /\ Len(stripped) <= Len(host)
    /\ stripped = SubSeq(host, 1, Len(stripped))
    /\ \A j \in (Len(stripped) + 1)..Len(host) : host[j] = "."
    /\ stripped = <<>> \/ stripped[Len(stripped)] # "."

\* C2 as claimed: when the MX query raises NoAnswer, wait() is called a second
\* time and an A query follows, which decides the outcome
C2_NoAnswerFallsBackToA ==
    \A i \in MxAnswered("NoAnswer") :
        /\ log[i].waits = 2
        /\ log[i].queries = <<"MX", "A">>
        /\ log[i].a.kind = "records" =>
              /\ results[i].status = "NO_MX"
              /\ results[i].error = <<"A record present, no MX records">>
        /\ log[i].a.kind = "NXDOMAIN" => results[i].status = "NO_DOMAIN"
        /\ log[i].a.kind \notin {"records", "NXDOMAIN"} => results[i].status = "UNKNOWN"

OneWaitOneMx(i) ==
    /\ log[i].waits = 1
    /\ log[i].queries = <<"MX">>
    /\ Len(log[i].after) <= Len(log[i].before) + 1

\* C3: an address that passes the syntax checks gets one wait() and then the
\* MX query; MX hosts give VALID_DOMAIN with the hosts in resolver order,
\* trailing dots stripped; NXDOMAIN gives NO_DOMAIN; no nameservers and
\* timeout give DNS_ERROR; any other failure gives UNKNOWN with its text; in
\* these five cases one wait() call was made
C3_MxMapping ==
    /\ \A i \in 1..Len(log) :
          (log[i].called /\ PreDnsCheck(emails[i]).kind = "continue") =>
              /\ log[i].waits >= 1
              /\ i \in Classified => log[i].queries[1] = "MX"
    /\ \A i \in MxAnswered("records") :
          /\ results[i].status = "VALID_DOMAIN"
          /\ Len(results[i].mx_records) = Len(log[i].mx.hosts)
          /\ \A j \in 1..Len(log[i].mx.hosts) :
                IsRStripped(log[i].mx.hosts[j], results[i].mx_records[j])
          /\ OneWaitOneMx(i)
    /\ \A i \in MxAnswered("NXDOMAIN") :
          /\ results[i].status = "NO_DOMAIN"
          /\ results[i].error = <<"domain does not exist (NXDOMAIN)">>
          /\ OneWaitOneMx(i)
    /\ \A i \in MxAnswered("NoNameservers") :
          results[i].status = "DNS_ERROR" /\ OneWaitOneMx(i)
    /\ \A i \in MxAnswered("Timeout") :
          results[i].status = "DNS_ERROR" /\ OneWaitOneMx(i)
    /\ \A i \in MxAnswered("Other") :
          /\ results[i].status = "UNKNOWN"
          /\ results[i].error = <<"unknown error", log[i].mx.text>>
          /\ OneWaitOneMx(i)

\* two MX hosts came back with trailing dots and were kept in order
C3_Witness ==
    \E i \in MxAnswered("records") :
        /\ log[i].mx.hosts = <<<<"n", ".">>, <<"m", ".">>>>
        /\ results[i].mx_records = <<<<"n">>, <<"m">>>>
        /\ log[i].waits = 1

\* the check of steps 1 to 4 that rejects the address, "" if none does
FirstFailedCheck(raw) ==
    LET email == Strip(raw)
        at == {k \in 1..Len(email) : email[k] = "@"}
    IN IF email = <<>> THEN "empty string"
       ELSE IF ~_is_valid_syntax(email) THEN "invalid email syntax"
       ELSE IF at = {} THEN "missing @ or domain"
       ELSE IF ~_is_valid_domain_syntax(
                   SubSeq(email, (CHOOSE k \in at : \A m \in at : k <= m) + 1, Len(email)))
       THEN "invalid domain syntax"
       ELSE ""

\* C4: an address that fails a check of steps 1 to 4 is NO_DOMAIN with the
\* message of the first check it fails, and check_email (called on a new
\* validator) made no wait() call and no DNS query for it and left the
\* limiter's window as it was
C4_RejectedBeforeDns ==
    \A i \in Classified :
        FirstFailedCheck(emails[i]) # "" =>
            /\ results[i].status = "NO_DOMAIN"
            /\ results[i].error = <<FirstFailedCheck(emails[i])>>
            /\ log[i].waits = 0
            /\ log[i].queries = <<>>
            /\ log[i].after = log[i].before
            /\ admitted = <<>>
            /\ waitCount = 0

\* the address with a double hyphen in a label was rejected by the domain check
C4_Witness ==
    /\ emails = << <<"a", "@", "a", "-", "-", "a", ".", "a">> >>
    /\ max_per_second > 0
    /\ Len(results) = 1
    /\ results[1].error = <<"invalid domain syntax">>
    /\ log[1].waits = 0

\* C10: whatever the address and whatever the resolver does, check_email
\* returns a result with one of the five statuses and lets no exception of the
\* resolver through to its caller
C10_NoResolverFailureEscapes ==
    /\ \A i \in Classified :
          /\ ~log[i].escaped
          /\ results[i].status \in Statuses
    /\ \A i \in 1..Len(log) : log[i].queries # <<>> => i \in Classified

\* an exception that is none of the four named ones became UNKNOWN
C10_Witness ==
    \E i \in MxAnswered("Other") :
        /\ results[i].status = "UNKNOWN"
        /\ results[i].error = <<"unknown error", "boom">>

-----------------------------------------------------------------------------
(* Properties of process_emails *)

\* C6: in every result check_email or process_emails produced, the status is
\* VALID_DOMAIN exactly when mx_records is not empty, and error is set
\* whenever the status is not VALID_DOMAIN
C6_ValidIffMxHosts ==
    \A i \in 1..Len(results) :
        /\ results[i].status = "VALID_DOMAIN" <=> results[i].mx_records # <<>>
        /\ results[i].status # "VALID_DOMAIN" => results[i].error # <<>>

\* a batch with a valid domain whose only MX host is the root ".", and a
\* result made by the handler of the loop
C6_Witness ==
    /\ Len(results) = 2
    /\ results[1].status = "VALID_DOMAIN"
    /\ results[1].mx_records = << <<>> >>
    /\ results[2].error = <<"processing error", "io">>

\* C7: without a cancellation process_emails returns one result per address,
\* the i-th result being that of the i-th address, duplicates included
C7_OneResultPerAddressInOrder ==
    pc = "returned" =>
        /\ Len(results) = Len(emails)
        /\ \A i \in 1..Len(emails) :
              /\ log[i].email = emails[i]
              /\ results[i].email = IF log[i].called THEN Strip(emails[i]) ELSE emails[i]
              /\ (log[i].called /\ FirstFailedCheck(emails[i]) # "") =>
                    results[i].error = <<FirstFailedCheck(emails[i])>>
              /\ (log[i].called /\ FirstFailedCheck(emails[i]) = "") =>
                    log[i].queries # <<>>

\* the same address twice in the batch: classified twice, both results kept
C7_Witness ==
    /\ pc = "returned"
    /\ Len(emails) = 2
    /\ emails[1] = emails[2]
    /\ results[1] = results[2]
    /\ results[1].status = "NO_DOMAIN"

\* the addresses whose processing raised an exception that is no cancellation
Failed == {i \in 1..Len(log) : ~log[i].called \/ log[i].escaped}

C9_Step ==
    /\ interrupted' =>
          /\ pc' = "exit"
          /\ exitStatus' = 1
          /\ Len(results') = idx' - 1
    /\ pc = "exit" => UNCHANGED <<pc, results, log, requests, admitted, waitCount, idx>>

C9_InterruptAborts == [][C9_Step]_vars

\* interrupted after the wait() of the second address, before its MX query
C9_Witness ==
    /\ pc = "exit"
    /\ exitStatus = 1
    /\ idx = 2
    /\ Len(results) = 1
    /\ Len(log) = 2
    /\ log[2].waits = 1
    /\ log[2].queries = <<>>


-----------------------------------------------------------------------------
(* Pacing of the RateLimiter *)

\* C12: with a ceiling c > 0 the (n+c)-th admission comes at least a second
\* after the n-th; with c = 1 the third admission comes at least two seconds
\* after the first
C12_Spacing ==
    max_per_second > 0 =>
        \A n \in 1..Len(admitted) :
            n + max_per_second <= Len(admitted) =>
                admitted[n + max_per_second] - admitted[n] >= Second

\* three admissions under a ceiling of 1, the third two seconds after the first
C12_Witness ==
    /\ max_per_second = 1
    /\ Len(admitted) = 3
    /\ admitted[3] - admitted[1] = 2 * Second

\* the timestamps of reqs that are less than a second old at time t
Retained(reqs, t) == SelectSeq(reqs, LAMBDA x : x + Second > t)

\* a step that is a call of wait()
WaitStep == waitCount' = waitCount + 1

\* C15: with a ceiling c > 0, a wait() that retains fewer than c timestamps
\* admits its call at once; one that retains c asks for one sleep of
\* 1 - (now - oldest retained), more than 0 and at most a second, prunes again
\* on waking and admits its call with the time it woke at
C15_Step ==
    (WaitStep /\ max_per_second > 0) =>
        LET kept == Retained(requests, now)
        IN IF Len(kept) < max_per_second
           THEN /\ slept'.asked = 0
                /\ now' = now
                /\ requests' = Append(kept, now)
                /\ admitted' = Append(admitted, now)
           ELSE /\ Len(kept) = max_per_second
                /\ slept'.at = now
                /\ slept'.asked = Second - (now - kept[1])
                /\ slept'.asked > 0
                /\ slept'.asked <= Second
                /\ slept'.woke = now'
                /\ now' >= now + slept'.asked
                /\ requests' = Append(Retained(kept, now'), now')
                /\ admitted' = Append(admitted, now')

C15_ExactSleep == [][C15_Step]_vars

\* under a ceiling of 2 a wait() slept for part of a second
C15_Witness ==
    /\ max_per_second = 2
    /\ slept.asked > 0
    /\ slept.asked < Second
    /\ now = slept.woke
    /\ requests[Len(requests)] = now

\* C18: with a ceiling c > 0 the retained timestamps are in non-decreasing
\* order and there are at most c of them
C18_WindowSortedAndBounded ==
    max_per_second > 0 =>
        /\ Len(requests) <= max_per_second
        /\ \A i \in 1..(Len(requests) - 1) : requests[i] <= requests[i + 1]

\* a full window of two different timestamps, the oldest first
C18_Witness ==
    /\ max_per_second = 2
    /\ Len(requests) = 2
    /\ requests[1] < requests[2]

\* the window of a limiter that got the same wait() calls at the same times
\* and no get_current_rate() call: what its last wait() left
WindowWithoutRateCalls == SelectSeq(admitted, LAMBDA x : slept.woke - x < Second)

\* C19: every wait() sleeps or not, for as long, and admits the same
\* timestamp as it would had get_current_rate() never been called
C19_Step ==
    (WaitStep /\ max_per_second > 0) =>
        \E o \in WaitOutcomes(max_per_second, WindowWithoutRateCalls, now) :
            /\ o.slept = slept'
            /\ o.now = now'
            /\ o.requests = requests'

C19_RateCallsDoNotChangePacing == [][C19_Step]_vars

\* get_current_rate() has dropped a timestamp that the last wait() had kept
C19_Witness ==
    /\ max_per_second > 0
    /\ lastRate >= 0
    /\ Len(requests) < Len(WindowWithoutRateCalls)
    /\ now < MaxTime


-----------------------------------------------------------------------------
(* Queries made by check_email *)

\* C16 as claimed: every NO_MX result comes after an A query for the same
\* address that found a record
C16_NoMxOnlyAfterA ==
    \A i \in Classified :
        results[i].status = "NO_MX" =>
            /\ log[i].queries = <<"MX", "A">>
            /\ log[i].a.kind = "records"

\* C17: for one address check_email makes at most one MX query and at most
\* one A query, an A query only after the MX query found no records of the
\* type, and no query after a query that failed
C17_NoRetry ==
    \A i \in 1..Len(log) :
        /\ log[i].queries \in {<<>>, <<"MX">>, <<"MX", "A">>}
        /\ log[i].queries = <<"MX", "A">> => log[i].mx.kind = "NoAnswer"
        /\ log[i].mx.kind \in {"NXDOMAIN", "NoNameservers", "Timeout", "Other"} =>
              /\ log[i].queries = <<"MX">>
              /\ log[i].waits = 1
              /\ i \in Classified

\* the MX query timed out: the result was returned with no second query
C17_Witness ==
    \E i \in MxAnswered("Timeout") :
        /\ log[i].queries = <<"MX">>
        /\ results[i].status = "DNS_ERROR"

\* the positions of "@" in s
AtSigns(s) == {k \in 1..Len(s) : s[k] = "@"}

PassedSyntaxCheck(i) ==
    results[i].error \notin {<<"empty string">>, <<"invalid email syntax">>}

\* C20: a trimmed address that passes the syntax check has exactly one "@"
\* with a non-empty domain after it, and check_email never returns the result
\* of step 3, "missing @ or domain"
C20_Step3Unreachable ==
    \A i \in Classified :
        /\ results[i].error # <<"missing @ or domain">>
        /\ PassedSyntaxCheck(i) =>
              /\ Cardinality(AtSigns(Strip(emails[i]))) = 1
              /\ \A k \in AtSigns(Strip(emails[i])) : k < Len(Strip(emails[i]))

\* an address passed the syntax check and step 3 and was rejected by step 4
C20_Witness ==
    /\ emails = << <<"a", "@", "a">> >>
    /\ Len(results) = 1
    /\ results[1].error = <<"invalid domain syntax">>


-----------------------------------------------------------------------------
(* get_current_rate() called again *)

\* C13: get_current_rate() calls made at one instant with no wait() between
\* them all return the same count, the number of timestamps less than a second
\* old, and every call after the first leaves the window as it found it
C13_RateIdempotent ==
    \A k \in 1..Len(rateCalls) :
        /\ rateCalls[k].rate = Cardinality(InWindow(now))
        /\ rateCalls[k].rate = rateCalls[1].rate
        /\ rateCalls[k].window = rateCalls[1].window
        /\ requests = rateCalls[k].window

\* two calls at one instant, the first of which dropped an old timestamp
C13_Witness ==
    /\ Len(rateCalls) >= 2
    /\ rateCalls[2].rate > 0
    /\ Len(admitted) > rateCalls[1].rate
    /\ Len(WindowWithoutRateCalls) > rateCalls[1].rate


-----------------------------------------------------------------------------
(* main() fails fast *)

BadCommandLine == cli.rate_limit < 0 \/ cli.file.status \in {"missing", "unreadable"}

NoAddresses ==
    /\ ~BadCommandLine
    /\ ReadEmails(cli.file.lines) = <<>>

NoLimiterOrResolverUse == waitCount = 0 /\ log = <<>> /\ requests = <<>>

\* C14: with a negative --rate-limit, a missing file or an unreadable file main
\* goes nowhere but to exit status 1, and with a file without non-empty lines
\* nowhere but to exit status 0, and no wait() call or resolver query was made
C14_FailFast ==
    /\ BadCommandLine =>
          /\ pc = "main" \/ (pc = "exit" /\ exitStatus = 1)
          /\ NoLimiterOrResolverUse
    /\ NoAddresses =>
          /\ pc = "main" \/ (pc = "exit" /\ exitStatus = 0)
          /\ NoLimiterOrResolverUse

\* main has exited on a negative rate limit although the file holds an address
C14_Witness ==
    /\ cli.rate_limit < 0
    /\ cli.file.status = "ok"
    /\ ReadEmails(cli.file.lines) # <<>>
    /\ pc = "exit"
    /\ exitStatus = 1


-----------------------------------------------------------------------------
(* check_email is a function of the address and the resolver's responses *)

SameResponses == log[1].mx = log[2].mx /\ log[1].a = log[2].a

\* C11: two check_email runs on the same address that got the same resolver
\* responses return the same result, whatever the ceiling of the limiter each
\* ran with, whatever its window held, and whatever the time was
C11_ClassifyDeterministic ==
    (Len(results) = 2 /\ emails[1] = emails[2] /\ SameResponses)
        => results[1] = results[2]

\* the first run recorded its query in a limited window at time 0, the second
\* ran later with an unlimited validator, and both found the same MX hosts
C11_Witness ==
    /\ Len(results) = 2
    /\ SameResponses
    /\ results[2].status = "VALID_DOMAIN"
    /\ log[1].after = <<0>>
    /\ max_per_second <= 0
    /\ log[2].after = <<>>
    /\ now > 0

====
